---- MODULE Spec2Model ----
(***************************************************************************)
(* Video-call signalling of shubh-chat: one call attempt between a caller  *)
(* (components/VideoCall.tsx) and a receiver (App.tsx incoming-call prompt *)
(* and components/VideoCallReceiver.tsx), coordinated through the `call`   *)
(* field of the Firestore document chats/{chatId}.                         *)
(*                                                                         *)
(* Each endpoint is single-threaded: an action is one callback run to      *)
(* completion (up to its next await).  updateDoc/addDoc follow Firestore:  *)
(* a write is issued into the client's FIFO of pending writes (wq); when   *)
(* it is committed the server record changes and the awaiting continuation *)
(* runs.  An onSnapshot listener is handed the client's current view: the  *)
(* server record with the client's own pending writes applied.  It may     *)
(* fire any number of times for the same record (duplicates) and may skip  *)
(* intermediate records; the caller may also be handed the answer          *)
(* notification late, after the status has moved on.                       *)
(*                                                                         *)
(* Scope: one attempt on a conversation without an earlier call record;    *)
(* one receiver view per attempt; writes do not fail; a transport session  *)
(* closes only when the other side destroyed its peer.                     *)
(***************************************************************************)
EXTENDS Naturals, Sequences, FiniteSets

\* ---------------------------------------------------------------- bounds
\* Ghost counters saturate at CountCap.
CountCap == 2
\* The user presses hang-up while fewer than MaxHangups writes of status
\* ended were issued by that endpoint, and Decline while fewer than
\* MaxDeclines writes of status missed were issued by declineCall.
MaxHangups == 1
MaxDeclines == 2
\* The user starts a screen share while fewer than MaxShares were started on
\* that endpoint.
MaxShares == 1

\* ------------------------------------------------------------- constants
NULL == "null"
OFFER == "offer"
StreamKinds == {"av", "audio"}

Sat(n) == IF n < CountCap THEN n + 1 ELSE n

\* The session description the responder produces: it sends media only when
\* the responder peer was constructed with a local stream.
Answer(stream) == IF stream = NULL THEN "answer_recvonly" ELSE "answer_sendrecv"

\* chats/{chatId} without a `call` field.
NoCall == [status |-> "absent", callerId |-> NULL, callerName |-> NULL,
           offer |-> NULL, answer |-> NULL]

Terminal == {"ended", "missed"}

\* incomingCall === null in App.tsx
NoIncoming == <<>>

VARIABLES
    call,       \* chats/{chatId}.call as stored by the server
    fresh,      \* |now - call.timestamp| < 35000
    messages,   \* chats/{chatId}/messages entries appended by the call code
    caller,     \* refs and pending work of the VideoCall component
    callee      \* App.tsx incoming-call state + VideoCallReceiver refs

vars == <<call, fresh, messages, caller, callee>>

W(op, val) == [op |-> op, val |-> val]

\* ------------------------------------------------------------ the server
\* Effect of one landed write on the call record (updateDoc field paths).
ApplyWriteStatusFirst(rec, w) ==
    CASE w.op = "setCall" -> [status |-> "calling", callerId |-> w.val, callerName |-> w.val,
                              offer |-> NULL, answer |-> NULL]
      [] w.op = "offer"   -> [rec EXCEPT !.offer = w.val]
      [] w.op = "answer"  -> [rec EXCEPT !.status = "active"]
      [] w.op = "missed"  -> [rec EXCEPT !.status = "missed"]
      [] w.op = "ended"   -> [rec EXCEPT !.status = "ended"]
      [] OTHER            -> rec

ApplyWriteOfferReplaces(rec, w) ==
    CASE w.op = "setCall" -> [status |-> "calling", callerId |-> w.val, callerName |-> w.val,
                              offer |-> NULL, answer |-> NULL]
      [] w.op = "offer"   -> [status |-> "calling", callerId |-> NULL, callerName |-> NULL,
                              offer |-> w.val, answer |-> NULL]
      [] w.op = "answer"  -> [rec EXCEPT !.answer = w.val, !.status = "active"]
      [] w.op = "missed"  -> [rec EXCEPT !.status = "missed"]
      [] w.op = "ended"   -> [rec EXCEPT !.status = "ended"]
      [] OTHER            -> rec

ApplyWrite(rec, w) ==
    CASE w.op = "setCall" -> [status |-> "calling", callerId |-> w.val, callerName |-> w.val,
                              offer |-> NULL, answer |-> NULL]
      [] w.op = "offer"   -> [rec EXCEPT !.offer = w.val]
      [] w.op = "answer"  -> [rec EXCEPT !.answer = w.val, !.status = "active"]
      [] w.op = "missed"  -> [rec EXCEPT !.status = "missed"]
      [] w.op = "ended"   -> [rec EXCEPT !.status = "ended"]
      [] OTHER            -> rec

MissedCallMessage == [text |-> "Missed video call", type |-> "text", status |-> "sent"]

\* What a client's listeners see: the server record overlaid with the
\* client's own pending writes.
RECURSIVE Overlay(_, _)
Overlay(rec, q) == IF q = <<>> THEN rec ELSE Overlay(ApplyWrite(rec, Head(q)), Tail(q))

View(ep) == Overlay(call, ep.wq)

\* The server commits the oldest pending write of one client.
Commit(ep) ==
    /\ ep.wq # <<>>
    /\ LET w == Head(ep.wq) IN
        /\ call' = ApplyWrite(call, w)
        /\ messages' = IF w.op = "log" THEN Append(messages, MissedCallMessage) ELSE messages
        /\ fresh' = IF w.op = "setCall" THEN TRUE ELSE fresh

\* More than 35 s pass since call.timestamp.
RecordAges == /\ call.status # "absent"
              /\ fresh
              /\ fresh' = FALSE
              /\ UNCHANGED <<call, messages, caller, callee>>

\* ------------------------------------------------------------ the caller
CallerInit ==
    [ mounted            |-> TRUE,
      init               |-> "media",     \* init(): awaiting getUserMedia
      callStatusRef      |-> "calling",
      peerSignaledRef    |-> FALSE,
      peerRef            |-> "null",      \* null | live | closing | destroyed
      offerEmitted       |-> FALSE,
      remoteDesc         |-> NULL,        \* answer applied to the live peer
      streamed           |-> FALSE,
      localStreamRef     |-> "null",      \* null | live | stopped
      durationTimerRef   |-> "null",      \* null | running | cleared
      missedCallTimerRef |-> "null",      \* null | armed | cleared | fired
      timerTask          |-> "idle",      \* idle | log | status | done | skipped
      closeTimer         |-> FALSE,       \* a setTimeout(onClose) is pending
      isScreenSharing    |-> FALSE,
      screenStreamRef    |-> "null",      \* null | live | stopped
      sender             |-> "none",      \* track of the peer's video sender: none | camera | screen
      sharePending       |-> 0,           \* getDisplayMedia() calls awaited
      screensLive        |-> 0,           \* captured screen streams with live tracks
      nShare             |-> 0,           \* getDisplayMedia() calls made
      nShareOff          |-> 0,           \* screen shares toggled off
      nScreenEnd         |-> 0,           \* screen track 'ended' events (SpecScreenEnd)
      isMuted            |-> FALSE,       \* useState(false) (SpecToggle)
      isCamOff           |-> FALSE,       \* useState(false) (SpecToggle)
      audioEnabled       |-> TRUE,        \* enabled flag of the local audio tracks
      videoEnabled       |-> TRUE,        \* enabled flag of the local video tracks
      wq                 |-> <<>>,
      nSignal            |-> 0,           \* peer.signal(answer) invocations
      offerLandedOn      |-> NULL,        \* record status found by the landing offer write
      nEnded             |-> 0,           \* writes of status ended issued
      nMissed            |-> 0,           \* writes of status missed issued
      nError             |-> 0,           \* peer 'error' events logged (SpecError)
      nClose             |-> 0 ]          \* setTimeout(onClose) calls

Issue(ep, w) == [ep EXCEPT !.wq = Append(@, w)]

\* cleanup(): every release is guarded by the ref being set; peer.destroy()
\* on a live peer queues the peer's 'close' event.
CallerCleanupLeavesPeer(c) ==
    [c EXCEPT !.durationTimerRef   = IF @ = "running" THEN "cleared" ELSE @,
              !.missedCallTimerRef = IF @ = "armed" THEN "cleared" ELSE @,
              !.localStreamRef     = IF @ = "live" THEN "stopped" ELSE @,
              !.screenStreamRef    = IF @ = "live" THEN "stopped" ELSE @,
              !.screensLive        = IF c.screenStreamRef = "live" THEN @ - 1 ELSE @]

CallerCleanup(c) ==
    [c EXCEPT !.durationTimerRef   = IF @ = "running" THEN "cleared" ELSE @,
              !.missedCallTimerRef = IF @ = "armed" THEN "cleared" ELSE @,
              !.peerRef            = IF @ = "live" THEN "closing" ELSE @,
              !.localStreamRef     = IF @ = "live" THEN "stopped" ELSE @,
              !.screenStreamRef    = IF @ = "live" THEN "stopped" ELSE @,
              !.screensLive        = IF c.screenStreamRef = "live" THEN @ - 1 ELSE @]

ScheduleClose(ep) == [ep EXCEPT !.closeTimer = TRUE, !.nClose = Sat(@)]

\* endCall() up to its await.
CallerEndCallGuard(c) == c.callStatusRef # "ended"

CallerEndCall(c) ==
    IF CallerEndCallGuard(c)
    THEN Issue([c EXCEPT !.callStatusRef = "ended", !.nEnded = Sat(@)], W("ended", NULL))
    ELSE c

\* peer.on('close')
CallerOnPeerClose(c) == IF c.callStatusRef # "ended" THEN CallerEndCall(c) ELSE c

\* The 'close' event queued by destroy() runs before any other callback of
\* this endpoint.
CallerIdle == caller.peerRef # "closing"

\* getUserMedia resolves: initiateCall issues the initial record write.
CallerMediaOk ==
    /\ CallerIdle
    /\ caller.init = "media"
    /\ caller' = Issue([caller EXCEPT !.init = "writing", !.localStreamRef = "live"],
                       W("setCall", "caller"))
    /\ UNCHANGED <<call, fresh, messages, callee>>

\* Unmount: the effect cleanups run (cleanup(), unsubscribe()).
CallerUnmount(c) == IF c.mounted THEN CallerCleanup([c EXCEPT !.mounted = FALSE]) ELSE c

\* getUserMedia rejects: alert and onClose().
CallerMediaFailAfterWrite ==
    /\ CallerIdle
    /\ caller.init = "media"
    /\ caller' = Issue(CallerUnmount([caller EXCEPT !.init = "failed"]), W("setCall", "caller"))
    /\ UNCHANGED <<call, fresh, messages, callee>>

CallerMediaFail ==
    /\ CallerIdle
    /\ caller.init = "media"
    /\ caller' = CallerUnmount([caller EXCEPT !.init = "failed"])
    /\ UNCHANGED <<call, fresh, messages, callee>>

\* The timer callback after its updateDoc: enter missed, tear down, schedule
\* the view close.
TimerFinishKeepsState(c) ==
    ScheduleClose(CallerCleanup([c EXCEPT !.timerTask = "done"]))

TimerFinish(c) ==
    ScheduleClose(CallerCleanup([c EXCEPT !.callStatusRef = "missed",
                                          !.timerTask = "done"]))

\* Continuations after a committed write.
CallerResume(c, w) ==
    CASE w.op = "setCall" ->
           \* rest of initiateCall: create the peer, arm the 30 s timer
           [c EXCEPT !.init = "ready", !.peerRef = "live", !.sender = "camera",
                     !.missedCallTimerRef = "armed"]
      [] w.op = "log" ->
           \* timer callback after addDoc
           Issue([c EXCEPT !.timerTask = "status", !.nMissed = Sat(@)], W("missed", NULL))
      [] w.op = "missed" ->
           TimerFinish(c)
      [] w.op = "ended" ->
           \* endCall after updateDoc
           ScheduleClose(CallerCleanup(c))
      [] OTHER -> c

CallerCommit ==
    /\ CallerIdle
    /\ Commit(caller)
    /\ caller' = CallerResume([caller EXCEPT !.wq = Tail(@),
                                              !.offerLandedOn = IF Head(caller.wq).op = "offer"
                                                                THEN call.status ELSE @],
                               Head(caller.wq))
    /\ UNCHANGED callee

\* peer.on('signal'): the initiator's offer is ready.
CallerPeerSignal ==
    /\ CallerIdle
    /\ caller.peerRef = "live"
    /\ ~caller.offerEmitted
    /\ caller' = Issue([caller EXCEPT !.offerEmitted = TRUE], W("offer", OFFER))
    /\ UNCHANGED <<call, fresh, messages, callee>>

\* peer.on('stream'): the remote description carries media.
CallerPeerStream ==
    /\ CallerIdle
    /\ caller.peerRef = "live"
    /\ caller.remoteDesc = "answer_sendrecv"
    /\ ~caller.streamed
    /\ caller' = [caller EXCEPT !.streamed = TRUE,
                                !.callStatusRef = "active",
                                !.durationTimerRef = "running"]
    /\ UNCHANGED <<call, fresh, messages, callee>>

\* The transport session is established once the caller has applied the
\* answer; it closes at one end when the other end destroyed its peer.
Connected == caller.remoteDesc # NULL

CallerPeerClosed ==
    /\ caller.peerRef = "live"
    /\ Connected
    /\ callee.peerRef \in {"closing", "destroyed"}
    /\ caller' = CallerOnPeerClose([caller EXCEPT !.peerRef = "destroyed"])
    /\ UNCHANGED <<call, fresh, messages, callee>>

\* The 'close' event that destroy() queued.
CallerPeerCloseEvent ==
    /\ caller.peerRef = "closing"
    /\ caller' = CallerOnPeerClose([caller EXCEPT !.peerRef = "destroyed"])
    /\ UNCHANGED <<call, fresh, messages, callee>>

\* The user presses the hang-up / X button.
CallerHangup ==
    /\ CallerIdle
    /\ caller.mounted
    /\ caller.nEnded < MaxHangups
    /\ CallerEndCallGuard(caller)
    /\ caller' = CallerEndCall(caller)
    /\ UNCHANGED <<call, fresh, messages, callee>>

\* The 30 s timer callback up to its first await.
TimerGuard(c) == c.callStatusRef = "calling"

CallerTimerFire ==
    /\ CallerIdle
    /\ caller.missedCallTimerRef = "armed"
    /\ caller' = IF TimerGuard(caller)
                 THEN Issue([caller EXCEPT !.missedCallTimerRef = "fired",
                                           !.timerTask = "log"], W("log", NULL))
                 ELSE [caller EXCEPT !.missedCallTimerRef = "fired",
                                     !.timerTask = "skipped"]
    /\ UNCHANGED <<call, fresh, messages, callee>>

\* onSnapshot listener of VideoCall, first branch: consume the answer.
AnswerGuardNoOnce(c, s) ==
    /\ s.status = "active"
    /\ s.answer # NULL
    /\ c.peerRef # "null"

AnswerGuard(c, s) ==
    /\ s.status = "active"
    /\ s.answer # NULL
    /\ c.peerRef # "null"
    /\ ~c.peerSignaledRef

CallerTakeAnswer(c, s) ==
    IF AnswerGuard(c, s)
    THEN [c EXCEPT !.peerSignaledRef = TRUE,
                   !.missedCallTimerRef = IF @ = "armed" THEN "cleared" ELSE @,
                   !.nSignal = Sat(@),
                   \* signal() returns on a destroying peer, throws on a destroyed one
                   !.remoteDesc = IF c.peerRef = "live" THEN s.answer ELSE @]
    ELSE c

\* second and third branch: adopt a remote terminal status.
CallerAdopt(c, s) ==
    IF s.status \in Terminal /\ c.callStatusRef # s.status
    THEN ScheduleClose(CallerCleanup([c EXCEPT !.callStatusRef = s.status]))
    ELSE c

\* One run of the listener on snapshot s.
CallerDeliver(s) ==
    /\ CallerIdle
    /\ caller.mounted
    /\ s.status # "absent"
    /\ caller' = CallerAdopt(CallerTakeAnswer(caller, s), s)
    /\ caller' # caller
    /\ UNCHANGED <<call, fresh, messages, callee>>

\* The snapshots the caller's listener can be handed now: its current view,
\* and, once an answer is in the record, the record as the answer write
\* left it (status active), delivered late.
CallerSnapshots ==
    {View(caller)} \cup
    (IF View(caller).answer # NULL THEN {[View(caller) EXCEPT !.status = "active"]} ELSE {})

CallerOnSnapshot == \E s \in CallerSnapshots : CallerDeliver(s)

\* A pending setTimeout(onClose) fires: the parent unmounts the view.
CallerOnClose ==
    /\ CallerIdle
    /\ caller.closeTimer
    /\ caller' = CallerUnmount([caller EXCEPT !.closeTimer = FALSE])
    /\ UNCHANGED <<call, fresh, messages, callee>>

\* ------------------------------------------------------- screen sharing
\* toggleScreenShare() is the same code in both components.  The video
\* sender is looked up on the peer's connection, which destroy() drops.
VideoSender(ep) == IF ep.peerRef = "live" THEN ep.sender ELSE "none"

\* else branch up to its await.
ShareStart(ep) == [ep EXCEPT !.sharePending = @ + 1, !.nShare = Sat(@)]

\* getDisplayMedia() resolved: the screen track replaces whatever the video
\* sender carries.
ShareOn(ep) ==
    [ep EXCEPT !.sharePending    = @ - 1,
               !.screenStreamRef = "live",
               !.screensLive     = @ + 1,
               !.sender          = IF VideoSender(ep) # "none" THEN "screen" ELSE @,
               !.isScreenSharing = TRUE]

\* getDisplayMedia() rejected: logged.
ShareFail(ep) == [ep EXCEPT !.sharePending = @ - 1]

\* if branch: stop the capture, put the camera track back on the sender.
ShareOffKeepsScreen(ep, hasCamera) ==
    [ep EXCEPT !.screensLive     = IF ep.screenStreamRef = "live" THEN @ - 1 ELSE @,
               !.screenStreamRef = "null",
               !.isScreenSharing = FALSE,
               !.nShareOff       = Sat(@)]

ShareOff(ep, hasCamera) ==
    [ep EXCEPT !.screensLive     = IF ep.screenStreamRef = "live" THEN @ - 1 ELSE @,
               !.screenStreamRef = "null",
               !.sender          = IF VideoSender(ep) # "none" /\ hasCamera
                                   THEN "camera" ELSE @,
               !.isScreenSharing = FALSE,
               !.nShareOff       = Sat(@)]

\* localStreamRef.current?.getVideoTracks()[0]
CallerHasCamera == caller.localStreamRef # "null"
CalleeHasCamera == callee.localStreamRef # "null" /\ callee.stream = "av"

CallerShareStart ==
    /\ CallerIdle
    /\ caller.mounted
    /\ ~caller.isScreenSharing
    /\ caller.nShare < MaxShares
    /\ caller' = ShareStart(caller)
    /\ UNCHANGED <<call, fresh, messages, callee>>

CallerShareResolve ==
    /\ CallerIdle
    /\ caller.sharePending > 0
    /\ caller' \in {ShareOn(caller), ShareFail(caller)}
    /\ UNCHANGED <<call, fresh, messages, callee>>

CallerShareStop ==
    /\ CallerIdle
    /\ caller.mounted
    /\ caller.isScreenSharing
    /\ caller' = ShareOff(caller, CallerHasCamera)
    /\ UNCHANGED <<call, fresh, messages, callee>>

CalleeInit ==
    [ incomingCall    |-> NoIncoming,   \* App: the prompt, <<>> or <<[offer |-> ...]>>
      acceptedCall    |-> FALSE,        \* App: VideoCallReceiver is rendered
      subIncoming     |-> FALSE,        \* App listener closure: incomingCall is set
      subAccepted     |-> FALSE,        \* App listener closure: acceptedCall is set
      ringing         |-> FALSE,        \* incomingRingRef audio is playing
      orphanRing      |-> FALSE,        \* an Audio dropped from incomingRingRef is playing (SpecRing)
      view            |-> "none",       \* none | mounted | unmounted
      start           |-> "none",       \* startReceivingCall: none | media | listening | done
      stream          |-> NULL,         \* result of getLocalStream()
      noCamera        |-> FALSE,
      localStreamRef  |-> "null",       \* null | live | stopped
      statusRef       |-> "connecting",
      peerCreatedRef  |-> FALSE,
      peerRef         |-> "null",       \* null | live | closing | destroyed
      answerEmitted   |-> FALSE,
      timerRef        |-> "null",       \* null | running | cleared
      closeTimer      |-> FALSE,
      isScreenSharing |-> FALSE,
      screenStreamRef |-> "null",       \* null | live | stopped
      sender          |-> "none",       \* none | camera | screen
      sharePending    |-> 0,
      screensLive     |-> 0,
      nShare          |-> 0,
      nShareOff       |-> 0,
      nScreenEnd      |-> 0,
      isMuted         |-> FALSE,
      isCamOff        |-> FALSE,
      audioEnabled    |-> TRUE,
      videoEnabled    |-> TRUE,
      wq              |-> <<>>,
      nEnded          |-> 0,            \* writes of status ended issued
      nMissed         |-> 0,            \* writes of status missed issued (decline)
      nLog            |-> 0,            \* missed-call messages issued (decline)
      nPeer           |-> 0,            \* peers created and fed the offer
      nError          |-> 0,            \* peer 'error' events logged (SpecError)
      nClose          |-> 0 ]

CalleeIdle == callee.peerRef # "closing"

\* The App listener is subscribed by an effect with dependencies
\* incomingCall and acceptedCall: its callback reads the values of the
\* render that subscribed it, until the effect runs again.
AppSubscribed(a) ==
    /\ a.subIncoming = (a.incomingCall # NoIncoming)
    /\ a.subAccepted = a.acceptedCall

AppResubscribe ==
    /\ ~AppSubscribed(callee)
    /\ callee' = [callee EXCEPT !.subIncoming = (callee.incomingCall # NoIncoming),
                                !.subAccepted = callee.acceptedCall]
    /\ UNCHANGED <<call, fresh, messages, caller>>

\* App.tsx listener, one 'modified' change carrying snapshot s.
RingGuardNoAge(a, s) ==
    /\ s.status = "calling"
    /\ s.callerId # "callee"
    /\ ~a.subIncoming
    /\ ~a.subAccepted

RingGuard(a, s) ==
    /\ s.status = "calling"
    /\ s.callerId # "callee"
    /\ ~a.subIncoming
    /\ ~a.subAccepted
    /\ fresh

AppRing(a, s) ==
    IF RingGuard(a, s)
    THEN [a EXCEPT !.incomingCall = <<[offer |-> s.offer]>>, !.ringing = TRUE]
    ELSE a

\* The auto-dismiss test reads the incomingCall of the render that
\* subscribed.
AppDismiss(a, old, s) ==
    IF old.subIncoming /\ s.status \in Terminal
    THEN [a EXCEPT !.incomingCall = NoIncoming, !.ringing = FALSE]
    ELSE a

AppOnSnapshot ==
    /\ callee' = AppDismiss(AppRing(callee, View(callee)), callee, View(callee))
    /\ callee' # callee
    /\ UNCHANGED <<call, fresh, messages, caller>>

\* acceptCall(): renders VideoCallReceiver, whose effects start
\* startReceivingCall() and subscribe the status listener.  The model
\* follows one receiver view per attempt.  Pending effects run before a
\* click is handled, and the effects of a click's render run with it.
AcceptCall ==
    /\ AppSubscribed(callee)
    /\ callee.incomingCall # NoIncoming
    /\ callee.view = "none"
    /\ callee' = [callee EXCEPT !.ringing = FALSE,
                                !.acceptedCall = TRUE,
                                !.incomingCall = NoIncoming,
                                !.subAccepted = TRUE,
                                !.subIncoming = FALSE,
                                !.view = "mounted",
                                !.start = "media"]
    /\ UNCHANGED <<call, fresh, messages, caller>>

\* declineCall() up to its first await.
DeclineGuard(a) == a.incomingCall # NoIncoming

Decline(a) ==
    IF DeclineGuard(a)
    THEN Issue([a EXCEPT !.ringing = FALSE, !.nMissed = Sat(@)], W("missed", NULL))
    ELSE a

DeclineCall ==
    /\ AppSubscribed(callee)
    /\ callee.nMissed < MaxDeclines
    /\ DeclineGuard(callee)
    /\ callee' = Decline(callee)
    /\ UNCHANGED <<call, fresh, messages, caller>>

CalleeCleanup(r) ==
    [r EXCEPT !.timerRef       = IF @ = "running" THEN "cleared" ELSE @,
              !.peerRef        = IF @ = "live" THEN "closing" ELSE @,
              !.localStreamRef = IF @ = "live" THEN "stopped" ELSE @,
              !.screenStreamRef = IF @ = "live" THEN "stopped" ELSE @,
              !.screensLive    = IF r.screenStreamRef = "live" THEN @ - 1 ELSE @]

CalleeEndCallGuard(r) == r.statusRef # "ended"

CalleeEndCall(r) ==
    IF CalleeEndCallGuard(r)
    THEN Issue([r EXCEPT !.statusRef = "ended", !.nEnded = Sat(@)], W("ended", NULL))
    ELSE r

CalleeOnPeerClose(r) == IF r.statusRef # "ended" THEN CalleeEndCall(r) ELSE r

\* onClose = () => setAcceptedCall(null): unmounts the view, whose effect
\* cleanups run cleanup() and unsubscribe the status listener.
CalleeUnmount(r) ==
    IF r.view = "mounted"
    THEN CalleeCleanup([r EXCEPT !.view = "unmounted", !.acceptedCall = FALSE])
    ELSE [r EXCEPT !.acceptedCall = FALSE]

\* getLocalStream() resolves (audio+video, audio only, or null); the offer
\* listener is subscribed.
ReceiverMediaFatal ==
    /\ CalleeIdle
    /\ callee.start = "media"
    /\ \E k \in StreamKinds \cup {NULL} :
         callee' = IF k = NULL
                   THEN CalleeUnmount([callee EXCEPT !.start = "done", !.noCamera = TRUE])
                   ELSE [callee EXCEPT !.start = "listening",
                                       !.stream = k,
                                       !.localStreamRef = "live"]
    /\ UNCHANGED <<call, fresh, messages, caller>>

ReceiverMedia ==
    /\ CalleeIdle
    /\ callee.start = "media"
    /\ \E k \in StreamKinds \cup {NULL} :
         callee' = [callee EXCEPT !.start = "listening",
                                  !.stream = k,
                                  !.noCamera = (k = NULL),
                                  !.localStreamRef = IF k = NULL THEN "null" ELSE "live"]
    /\ UNCHANGED <<call, fresh, messages, caller>>

\* unsubOffer listener of startReceivingCall.
OfferGuardNoOffer(r, s) ==
    /\ ~r.peerCreatedRef
    /\ s.status \notin Terminal

OfferGuardNoStatus(r, s) ==
    /\ s.offer # NULL
    /\ ~r.peerCreatedRef

OfferGuard(r, s) ==
    /\ s.offer # NULL
    /\ ~r.peerCreatedRef
    /\ s.status \notin Terminal

ReceiverTakeOfferNoLatch(r, s) ==
    [r EXCEPT !.peerRef = "live", !.nPeer = Sat(@),
              !.sender = IF r.stream = "av" THEN "camera" ELSE "none"]

ReceiverTakeOffer(r, s) ==
    IF OfferGuard(r, s)
    THEN [r EXCEPT !.peerCreatedRef = TRUE, !.start = "done", !.peerRef = "live",
                   !.nPeer = Sat(@),
                   !.sender = IF r.stream = "av" THEN "camera" ELSE "none"]
    ELSE r

ReceiverOnOffer ==
    /\ CalleeIdle
    /\ callee.start = "listening"
    /\ OfferGuard(callee, View(callee))
    /\ callee' = ReceiverTakeOffer(callee, View(callee))
    /\ UNCHANGED <<call, fresh, messages, caller>>

\* peer.on('signal'): the responder's answer is ready.
ReceiverPeerSignal ==
    /\ CalleeIdle
    /\ callee.peerRef = "live"
    /\ ~callee.answerEmitted
    /\ callee' = Issue([callee EXCEPT !.answerEmitted = TRUE],
                       W("answer", Answer(callee.stream)))
    /\ UNCHANGED <<call, fresh, messages, caller>>

ReceiverPeerClosed ==
    /\ callee.peerRef = "live"
    /\ Connected
    /\ caller.peerRef \in {"closing", "destroyed"}
    /\ callee' = CalleeOnPeerClose([callee EXCEPT !.peerRef = "destroyed"])
    /\ UNCHANGED <<call, fresh, messages, caller>>

ReceiverPeerCloseEvent ==
    /\ callee.peerRef = "closing"
    /\ callee' = CalleeOnPeerClose([callee EXCEPT !.peerRef = "destroyed"])
    /\ UNCHANGED <<call, fresh, messages, caller>>

ReceiverHangup ==
    /\ CalleeIdle
    /\ callee.view = "mounted"
    /\ callee.nEnded < MaxHangups
    /\ CalleeEndCallGuard(callee)
    /\ callee' = CalleeEndCall(callee)
    /\ UNCHANGED <<call, fresh, messages, caller>>

\* Status listener of VideoCallReceiver.
CalleeAdopt(r, s) ==
    IF s.status \in Terminal /\ r.statusRef # "ended"
    THEN ScheduleClose(CalleeCleanup([r EXCEPT !.statusRef = "ended"]))
    ELSE r

ReceiverOnSnapshot ==
    /\ CalleeIdle
    /\ callee.view = "mounted"
    /\ callee' = CalleeAdopt(callee, View(callee))
    /\ callee' # callee
    /\ UNCHANGED <<call, fresh, messages, caller>>

CalleeResume(r, w) ==
    CASE w.op = "answer" ->
           \* peer.on('signal') after updateDoc
           [r EXCEPT !.statusRef = "active", !.timerRef = "running"]
      [] w.op = "ended" ->
           \* endCall after updateDoc
           ScheduleClose(CalleeCleanup(r))
      [] w.op = "missed" ->
           \* declineCall after updateDoc
           Issue([r EXCEPT !.nLog = Sat(@)], W("log", NULL))
      [] w.op = "log" ->
           \* declineCall after addDoc
           [r EXCEPT !.incomingCall = NoIncoming]
      [] OTHER -> r

CalleeCommit ==
    /\ CalleeIdle
    /\ Commit(callee)
    /\ callee' = CalleeResume([callee EXCEPT !.wq = Tail(@)], Head(callee.wq))
    /\ UNCHANGED caller

ReceiverOnClose ==
    /\ CalleeIdle
    /\ callee.closeTimer
    /\ callee' = CalleeUnmount([callee EXCEPT !.closeTimer = FALSE])
    /\ UNCHANGED <<call, fresh, messages, caller>>

ReceiverShareStart ==
    /\ CalleeIdle
    /\ callee.view = "mounted"
    /\ ~callee.isScreenSharing
    /\ callee.nShare < MaxShares
    /\ callee' = ShareStart(callee)
    /\ UNCHANGED <<call, fresh, messages, caller>>

ReceiverShareResolve ==
    /\ CalleeIdle
    /\ callee.sharePending > 0
    /\ callee' \in {ShareOn(callee), ShareFail(callee)}
    /\ UNCHANGED <<call, fresh, messages, caller>>

ReceiverShareStop ==
    /\ CalleeIdle
    /\ callee.view = "mounted"
    /\ callee.isScreenSharing
    /\ callee' = ShareOff(callee, CalleeHasCamera)
    /\ UNCHANGED <<call, fresh, messages, caller>>

\* --------------------------------------------------------- specification
Init ==
    /\ call = NoCall
    /\ fresh = FALSE
    /\ messages = <<>>
    /\ caller = CallerInit
    /\ callee = CalleeInit

Next ==
    \/ RecordAges
    \/ CallerMediaOk
    \/ CallerMediaFail
    \/ CallerCommit
    \/ CallerPeerSignal
    \/ CallerPeerStream
    \/ CallerPeerClosed
    \/ CallerPeerCloseEvent
    \/ CallerHangup
    \/ CallerTimerFire
    \/ CallerOnSnapshot
    \/ CallerOnClose
    \/ AppOnSnapshot
    \/ AppResubscribe
    \/ AcceptCall
    \/ DeclineCall
    \/ ReceiverMedia
    \/ ReceiverOnOffer
    \/ ReceiverPeerSignal
    \/ ReceiverPeerClosed
    \/ ReceiverPeerCloseEvent
    \/ ReceiverHangup
    \/ ReceiverOnSnapshot
    \/ CalleeCommit
    \/ ReceiverOnClose

Spec == Init /\ [][Next]_vars

TypeOK ==
    /\ call.status \in {"absent", "calling", "active", "ended", "missed"}
    /\ caller.callStatusRef \in {"calling", "active", "ended", "missed"}
    /\ callee.statusRef \in {"connecting", "active", "ended"}
    /\ Len(messages) <= MaxDeclines + 1

\* Writes are committed and queued 'close' events run.
FairSpec == Spec /\ WF_vars(CallerCommit) /\ WF_vars(CallerPeerCloseEvent)
                 /\ WF_vars(CalleeCommit) /\ WF_vars(ReceiverPeerCloseEvent)

\* Scenario: the caller starts a call, nobody presses a button.
NextNoAction ==
    \/ RecordAges
    \/ CallerMediaOk
    \/ CallerCommit
    \/ CallerPeerSignal
    \/ CallerPeerCloseEvent
    \/ CallerTimerFire
    \/ CallerOnSnapshot
    \/ CallerOnClose
    \/ AppOnSnapshot
    \/ AppResubscribe

SpecNoAction == Init /\ [][NextNoAction]_vars

\* Scenario: the caller's capture succeeds, the receiver is notified and
\* accepts or ignores the call before the timeout, nobody declines, and
\* both sides use the screen-share button.  Screen
\* sharing touches only the capture, the video sender and its own flag,
\* none of which the signalling reads, so Spec leaves the button alone.
NextShare ==
    \/ CallerMediaOk
    \/ CallerCommit
    \/ CallerPeerSignal
    \/ CallerPeerStream
    \/ CallerPeerClosed
    \/ CallerPeerCloseEvent
    \/ CallerHangup
    \/ CallerOnSnapshot
    \/ CallerOnClose
    \/ AppOnSnapshot
    \/ AppResubscribe
    \/ AcceptCall
    \/ ReceiverMedia
    \/ ReceiverOnOffer
    \/ ReceiverPeerSignal
    \/ ReceiverPeerClosed
    \/ ReceiverPeerCloseEvent
    \/ ReceiverHangup
    \/ ReceiverOnSnapshot
    \/ CalleeCommit
    \/ ReceiverOnClose
    \/ CallerShareStart
    \/ CallerShareResolve
    \/ CallerShareStop
    \/ ReceiverShareStart
    \/ ReceiverShareResolve
    \/ ReceiverShareStop

SpecShare == Init /\ [][NextShare]_vars

\* Scenario: the conversation holds a record left by an earlier attempt,
\* and the other participant's client may start an attempt of its own.
\* The component that mounts VideoCall is not part of the sources; its
\* decision to start a call is taken from the specification: no attempt
\* is started while the record is calling or active.
StartGuard(rec) == rec.status \notin {"calling", "active"}

\* Records an earlier attempt can have left behind.
PriorRecords ==
    {NoCall} \cup
    {r \in [status : {"calling", "active", "ended", "missed"},
            callerId : {"caller", "callee"}, callerName : {"caller", "callee"},
            offer : {NULL, OFFER},
            answer : {NULL, "answer_recvonly", "answer_sendrecv"}] :
        /\ r.callerName = r.callerId
        /\ r.answer # NULL => r.offer # NULL
        /\ r.status = "active" => r.answer # NULL}

\* The answer of the earlier attempt's receiver.
STALE == "answer_stale"

\* The earlier attempt's receiver can have its answer write still pending
\* (issued, not yet landed) when the new attempt starts, if that attempt
\* got as far as an offer.
PriorPending(rec) ==
    {<<>>} \cup (IF rec.offer # NULL /\ rec.answer = NULL THEN {<<W("answer", STALE)>>} ELSE {})

InitPrior ==
    /\ call \in {r \in PriorRecords : StartGuard(r)}
    /\ fresh = FALSE
    /\ messages = <<>>
    /\ caller = CallerInit
    /\ callee \in {[CalleeInit EXCEPT !.wq = q] : q \in PriorPending(call)}

\* The other participant starts a call: its VideoCall writes the initial
\* record.
OtherStart ==
    /\ StartGuard(call)
    /\ call' = ApplyWrite(call, W("setCall", "callee"))
    /\ fresh' = TRUE
    /\ UNCHANGED <<messages, caller, callee>>

\* The pending write of the earlier receiver lands; its continuation
\* belongs to the earlier, disposed view.
PriorWriteLands ==
    /\ Commit(callee)
    /\ callee' = [callee EXCEPT !.wq = Tail(@)]
    /\ UNCHANGED caller

NextPrior ==
    \/ OtherStart
    \/ PriorWriteLands
    \/ RecordAges
    \/ CallerMediaOk
    \/ CallerMediaFail
    \/ CallerCommit
    \/ CallerPeerSignal
    \/ CallerPeerCloseEvent
    \/ CallerHangup
    \/ CallerTimerFire
    \/ CallerOnSnapshot
    \/ CallerOnClose

SpecPrior == InitPrior /\ [][NextPrior]_vars

\* ================================================================ claims

\* C1: within one attempt the record's status only moves along
\* calling->active->ended or calling->missed: no write changes ended or
\* missed to calling or active, ended to missed, missed to ended, or active
\* to missed.  (The write that creates the attempt is exempt.)
Regressions ==
    {<<"ended", "calling">>, <<"ended", "active">>, <<"missed", "calling">>,
     <<"missed", "active">>, <<"ended", "missed">>, <<"missed", "ended">>,
     <<"active", "missed">>}

StartsAttempt ==
    /\ caller.wq # <<>> /\ Head(caller.wq).op = "setCall"
    /\ call.status # "calling" /\ call'.status = "calling"

C1_StatusMonotonic ==
    [][StartsAttempt \/ <<call.status, call'.status>> \notin Regressions]_vars

\* C2: a terminal local state is never left: once callStatusRef is ended or
\* missed, or statusRef is ended, no later step changes it.
C2_TerminalNeverLeft ==
    [][/\ caller.callStatusRef \in Terminal => caller'.callStatusRef = caller.callStatusRef
       /\ callee.statusRef = "ended" => callee'.statusRef = "ended"]_vars

\* C3: for any number of notifications carrying the answer with status
\* active, peer.signal(answer) is invoked exactly once: never twice, and by
\* the first such notification that finds the peer created.
CarriesAnswer(s) == s.status = "active" /\ s.answer # NULL

C3_AnswerAppliedOnce ==
    [][/\ caller'.nSignal <= 1
       /\ \A s \in CallerSnapshots :
            (CallerDeliver(s) /\ CarriesAnswer(s) /\ caller.peerRef # "null")
                => caller'.nSignal = 1]_vars

\* The answer was applied and the same notification can be delivered again.
C3_Witness ==
    /\ caller.nSignal = 1 /\ caller.remoteDesc # NULL
    /\ caller.mounted /\ CallerIdle
    /\ \E s \in CallerSnapshots : CarriesAnswer(s)

\* C4: when the 30 s timer fires with the caller still in CALLING, the
\* caller's state becomes missed and the record's status is written missed.
C4_TimeoutLeadsToMissed ==
    (caller.timerTask = "log") ~>
        (caller.callStatusRef = "missed" /\ call.status = "missed")

C4_Witness ==
    caller.timerTask = "done" /\ caller.callStatusRef = "missed" /\ call.status = "missed"

\* C5: once the caller's state is missed, a notification with status active
\* and an answer never makes the caller invoke peer.signal(answer), and the
\* state stays missed over that notification.
C5_LateAnswerIgnored ==
    [][\A s \in CallerSnapshots :
         (caller.callStatusRef = "missed" /\ CallerDeliver(s) /\ CarriesAnswer(s))
            => (caller'.nSignal = caller.nSignal /\ caller'.callStatusRef = "missed")]_vars

\* C6: the caller starts a call and the receiver takes no action: the
\* history holds at most one missed-call entry, and once the record's
\* status is missed it stays missed.
C6_MissedStays ==
    [][/\ Len(messages') <= 1
       /\ call.status = "missed" => call'.status = "missed"]_vars

\* C7: the receiver accepts before the timeout and everything is
\* delivered: both sides reach ACTIVE, with or without a local stream on
\* the receiver.  Stated on the settled state of that scenario: the answer
\* is written and consumed, every pending write is committed, every peer
\* event is delivered, and nobody timed out, hung up or declined.
AcceptSettled ==
    /\ callee.view = "mounted" /\ callee.peerRef = "live" /\ callee.answerEmitted
    /\ callee.wq = <<>> /\ caller.wq = <<>>
    /\ caller.peerRef = "live" /\ caller.peerSignaledRef
    /\ ~(caller.remoteDesc = "answer_sendrecv" /\ ~caller.streamed)
    /\ caller.timerTask = "idle" /\ caller.nEnded = 0
    /\ callee.nEnded = 0 /\ callee.nMissed = 0
    /\ call.status = "active"

C7_BothActive ==
    AcceptSettled => (caller.callStatusRef = "active" /\ callee.statusRef = "active")

\* C8: declineCall() invoked twice for the same incoming call issues
\* exactly one write of status missed and one missed-call log entry.
C8_DeclineOnce == callee.nMissed <= 1 /\ callee.nLog <= 1

\* C9: any number of endCall invocations on one endpoint issue exactly one
\* write of status ended (each such write is followed by one
\* setTimeout(onClose), so this also bounds the scheduled closes).
C9_HangupOnce == caller.nEnded <= 1 /\ callee.nEnded <= 1

\* C10: at most one missed-call log entry is appended to the conversation
\* per attempt.
C10_OneMissedEntry == Len(messages) <= 1

\* C11: within one attempt the record's offer, once set, is never changed,
\* the answer, once set, is never changed, and a non-null answer implies a
\* non-null offer in every record state.
C11_OfferAnswerOnce ==
    [][/\ call.offer # NULL => call'.offer = call.offer
       /\ call.answer # NULL => call'.answer = call.answer
       /\ call'.answer # NULL => call'.offer # NULL]_vars

\* Offer and answer are both in the record and a later write has landed.
C11_Witness ==
    call.offer # NULL /\ call.answer # NULL /\ call.status = "ended"

\* C12: teardown is idempotent: cleanup() invoked three times releases
\* every timer, peer, stream and screen capture the endpoint holds, and the
\* second and third invocation change nothing (no release happens twice).
CallerReleased(c) ==
    /\ c.durationTimerRef # "running" /\ c.missedCallTimerRef # "armed"
    /\ c.peerRef # "live" /\ c.localStreamRef # "live" /\ c.screenStreamRef # "live"

CalleeReleased(r) ==
    /\ r.timerRef # "running" /\ r.peerRef # "live"
    /\ r.localStreamRef # "live" /\ r.screenStreamRef # "live"

C12_CleanupIdempotent ==
    /\ LET c1 == CallerCleanup(caller) IN
         CallerReleased(c1) /\ CallerCleanup(CallerCleanup(c1)) = c1
    /\ LET r1 == CalleeCleanup(callee) IN
         CalleeReleased(r1) /\ CalleeCleanup(CalleeCleanup(r1)) = r1

\* cleanup() ran after the timeout, after the write of ended that the
\* 'close' event issued, and on unmount.
C12_Witness ==
    /\ caller.timerTask = "done" /\ caller.nEnded = 1 /\ caller.wq = <<>>
    /\ ~caller.mounted /\ caller.missedCallTimerRef = "fired"
    /\ caller.peerRef = "destroyed" /\ caller.localStreamRef = "stopped"

\* C13: an endpoint that adopted a terminal status written by the other
\* side (it never issued a status write itself) tears down without issuing
\* a status write as a consequence, also when its own teardown makes the
\* peer emit 'close'.
CallerAdoptedRemote ==
    /\ caller.callStatusRef \in Terminal
    /\ caller.nEnded = 0 /\ caller.nMissed = 0
    /\ caller.timerTask \in {"idle", "skipped"}

CalleeAdoptedRemote ==
    /\ callee.statusRef = "ended"
    /\ callee.nEnded = 0 /\ callee.nMissed = 0

C13_AdoptWritesNothing ==
    [][/\ CallerAdoptedRemote => (caller'.nEnded = 0 /\ caller'.nMissed = 0)
       /\ CalleeAdoptedRemote =>
            (callee'.nEnded = 0 /\ callee'.answerEmitted = callee.answerEmitted)]_vars

\* C14: the timeout is armed at most once per attempt, and once the caller
\* has left CALLING (active or terminal) the timer callback issues no
\* missed write, issues no log entry and changes no call state.
C14_TimerQuietAfterCalling ==
    [][/\ (caller.missedCallTimerRef # "armed" /\ caller'.missedCallTimerRef = "armed")
            => caller.missedCallTimerRef = "null"
       /\ caller.callStatusRef # "calling" =>
            /\ caller'.nMissed = caller.nMissed
            /\ caller'.timerTask = "log" => caller.timerTask = "log"
            /\ (caller.timerTask = "status" /\ caller'.timerTask = "done")
                 => caller'.callStatusRef = caller.callStatusRef]_vars

\* C15: the receiver shows the incoming-call prompt and starts the ring
\* only when the observed record has status calling, a non-null offer and
\* an age below 35 s, and no call is displayed or accepted.  (The caller
\* is a different user throughout.)
PromptAppears ==
    \/ callee.incomingCall = NoIncoming /\ callee'.incomingCall # NoIncoming
    \/ ~callee.ringing /\ callee'.ringing

C15_RingCondition ==
    [][PromptAppears =>
         /\ View(callee).status = "calling"
         /\ View(callee).offer # NULL
         /\ fresh
         /\ callee.incomingCall = NoIncoming
         /\ ~callee.acceptedCall]_vars

\* C16: a record with status calling that is older than 35 s when a
\* notification for it arrives never surfaces the prompt or the ring.
C16_StaleNeverRings == [][PromptAppears => fresh]_vars

\* The receiver can be notified of a calling record that is too old, and
\* shows nothing.
C16_Witness ==
    /\ ~fresh /\ View(callee).status = "calling"
    /\ callee.incomingCall = NoIncoming /\ ~callee.ringing
    /\ ~callee.acceptedCall /\ callee.view = "none"

\* C17: the initial write of an attempt (the record overwritten with
\* status calling) lands only on a record whose status is not calling or
\* active: a start never overwrites a live attempt.
InitialWriteLands == caller.init = "writing" /\ caller'.init = "ready"

C17_StartOnlyWhenIdle ==
    [][InitialWriteLands => call.status \notin {"calling", "active"}]_vars

\* C18: if the caller's media capture fails the attempt is aborted: in the
\* failing step and ever after the caller issues no write to the record,
\* has no initial write pending, has no peer and no armed timeout, and its
\* view is closed.
C18_CaptureFailureAborts ==
    [][caller'.init = "failed" =>
         /\ Len(caller'.wq) <= Len(caller.wq)
         /\ \A i \in 1..Len(caller'.wq) : caller'.wq[i].op \notin {"setCall", "offer"}
         /\ caller'.peerRef = "null"
         /\ caller'.missedCallTimerRef = "null"
         /\ ~caller'.mounted]_vars

C18_Witness ==
    /\ caller.init = "failed" /\ ~caller.mounted /\ caller.wq = <<>>
    /\ call = NoCall /\ caller.peerRef = "null"

\* C19: receiver capture failure is not fatal: when getLocalStream() yields
\* no stream the receiver sets the no-camera flag and goes on to listen for
\* the offer with its view and state untouched; the peer it then creates
\* has no local stream, and the answer it emits is written with status
\* active.
C19_NoStreamNotFatal ==
    [][callee'.stream = NULL =>
         /\ (callee.start = "media" /\ callee'.start # "media") =>
               /\ callee'.start = "listening" /\ callee'.noCamera
               /\ callee'.view = callee.view /\ callee'.statusRef = callee.statusRef
               /\ callee'.closeTimer = callee.closeTimer /\ callee'.wq = callee.wq
         /\ (callee.peerRef = "null" /\ callee'.peerRef = "live") =>
               /\ callee'.noCamera /\ callee'.localStreamRef = "null"
               /\ callee'.sender = "none" /\ View(callee).offer # NULL
         /\ (~callee.answerEmitted /\ callee'.answerEmitted) =>
               callee'.wq = Append(callee.wq, W("answer", "answer_recvonly"))
         /\ (callee.wq # <<>> /\ Head(callee.wq).op = "answer" /\ callee'.wq = Tail(callee.wq)) =>
               /\ call'.answer = "answer_recvonly" /\ call'.status = "active"
               /\ callee'.statusRef = "active"]_vars

\* A receiver without any local media answered the call.
C19_Witness ==
    /\ callee.stream = NULL /\ callee.noCamera /\ callee.start = "done"
    /\ callee.peerRef = "live" /\ callee.answerEmitted /\ callee.wq = <<>>
    /\ call.answer = "answer_recvonly" /\ call.status = "active"
    /\ callee.statusRef = "active"

\* C20: toggling screen share off after it was toggled on puts the camera
\* track back on the video sender (whenever the peer has one) and stops
\* the screen capture, on the caller and on the receiver.
ShareToggledOff(ep, ep2) ==
    (ep.isScreenSharing /\ ~ep2.isScreenSharing) =>
        /\ VideoSender(ep) # "none" => VideoSender(ep2) = "camera"
        /\ VideoSender(ep2) # "screen"
        /\ ep2.screenStreamRef = "null"
        /\ ep2.screensLive = IF ep.screenStreamRef = "live"
                             THEN ep.screensLive - 1 ELSE ep.screensLive

C20_ShareOnOffRestores ==
    [][ShareToggledOff(caller, caller') /\ ShareToggledOff(callee, callee')]_vars

\* Both sides shared their screen over the live peer and toggled it off.
C20_Witness ==
    /\ caller.nShareOff = 1 /\ VideoSender(caller) = "camera" /\ caller.screensLive = 0
    /\ callee.nShareOff = 1 /\ VideoSender(callee) = "camera" /\ callee.screensLive = 0

\* C21: a transport 'close' event on an endpoint that is already terminal
\* (caller ended or missed, receiver ended) issues no write and changes no
\* call state.
CallerCloseEvent == caller.peerRef \in {"live", "closing"} /\ caller'.peerRef = "destroyed"
CalleeCloseEvent == callee.peerRef \in {"live", "closing"} /\ callee'.peerRef = "destroyed"

C21_CloseWhileTerminal ==
    [][/\ (CallerCloseEvent /\ caller.callStatusRef \in Terminal) =>
            (caller'.wq = caller.wq /\ caller'.callStatusRef = caller.callStatusRef)
       /\ (CalleeCloseEvent /\ callee.statusRef = "ended") =>
            (callee'.wq = callee.wq /\ callee'.statusRef = "ended")]_vars

\* C22: at the step at which the caller first applies the answer it cancels the
\* timeout and becomes ACTIVE, and once the answer is applied no timeout
\* continuation moves the caller to MISSED.
AnswerApplied == caller.remoteDesc = NULL /\ caller'.remoteDesc # NULL
TimeoutSetsMissed == caller.timerTask = "status" /\ caller'.timerTask = "done"
                     /\ caller.callStatusRef # "missed" /\ caller'.callStatusRef = "missed"

C22_AnswerBeatsTimeout ==
    [][/\ AnswerApplied => (caller'.callStatusRef = "active" /\ caller'.missedCallTimerRef # "armed")
       /\ caller.remoteDesc # NULL => ~TimeoutSetsMissed]_vars

\* C23: in every reachable state of the call record, and of the record as
\* either client sees it, status active implies a non-null answer.
ActiveHasAnswer(rec) == rec.status = "active" => rec.answer # NULL

C23_ActiveHasAnswer ==
    ActiveHasAnswer(call) /\ ActiveHasAnswer(View(caller)) /\ ActiveHasAnswer(View(callee))

C23_Witness ==
    /\ call.status = "active" /\ call.answer = "answer_sendrecv"
    /\ callee.wq = <<>> /\ callee.statusRef = "active"

\* C24: when the caller's offer write lands it changes only the offer field
\* of the record: status, callerId, callerName, answer and the record's
\* age stay as they were, whatever the status at that moment.
OfferLands == caller.wq # <<>> /\ Head(caller.wq).op = "offer" /\ caller'.wq = Tail(caller.wq)

C24_OfferWriteMerges ==
    [][OfferLands =>
          /\ call' = [call EXCEPT !.offer = OFFER]
          /\ fresh' = fresh
          /\ messages' = messages]_vars

C24_Witness ==
    /\ caller.offerLandedOn = "missed"
    /\ call.status = "missed" /\ call.callerId = "caller" /\ call.offer = OFFER

\* C25: the accepted receiver creates at most one peer and feeds it the offer
\* at most once per attempt, however many notifications carry the offer; a
\* peer is only ever created by a receiver that had none.
C25_OnePeerPerAttempt ==
    [][/\ callee'.nPeer <= 1
       /\ callee'.nPeer # callee.nPeer =>
            (callee.peerRef = "null" /\ ~callee.peerCreatedRef /\ callee'.peerCreatedRef)]_vars

C25_Witness ==
    /\ callee.nPeer = 1 /\ callee.peerCreatedRef /\ callee.view = "mounted"
    /\ callee.peerRef = "live" /\ callee.answerEmitted /\ callee.wq = <<>>
    /\ call.status = "active" /\ call.offer # NULL

\* C26: whenever the prompt is displayed, a notification carrying status
\* ended or missed dismisses the prompt and stops the ring; whenever the
\* accepted receiver is not yet ended, such a notification moves it to
\* ended and tears it down.
PromptDismissedBy(s) ==
    LET a == AppDismiss(AppRing(callee, s), callee, s) IN
        a.incomingCall = NoIncoming /\ ~a.ringing

ReceiverEndedBy(s) ==
    LET r == CalleeAdopt(callee, s) IN
        r.statusRef = "ended" /\ CalleeReleased(r) /\ r.closeTimer

C26_TerminalObserved ==
    View(callee).status \in Terminal =>
        /\ callee.incomingCall # NoIncoming => PromptDismissedBy(View(callee))
        /\ (callee.view = "mounted" /\ callee.statusRef # "ended") => ReceiverEndedBy(View(callee))

\* C27: an accepted receiver that adopted ended or missed before it consumed
\* the offer never creates a peer and never issues the answer / active
\* write for that attempt.
AdoptedBeforeOffer ==
    /\ callee.statusRef = "ended" /\ callee.nEnded = 0
    /\ ~callee.peerCreatedRef

C27_NoPeerAfterTerminal ==
    [][AdoptedBeforeOffer =>
          /\ ~callee'.peerCreatedRef /\ callee'.peerRef = "null" /\ callee'.nPeer = 0
          /\ ~callee'.answerEmitted]_vars

C27_Witness ==
    /\ AdoptedBeforeOffer
    /\ callee.start = "listening" /\ callee.view = "unmounted"
    /\ call.offer # NULL /\ call.status \in Terminal

\* C28: a terminal status left in the record by an earlier attempt never
\* terminates a new attempt: until the caller has issued its initial
\* write, only its own hang-up changes its call state.
C28_StaleTerminalIgnored ==
    [][(caller.init = "media" /\ caller'.nEnded = caller.nEnded) =>
          caller'.callStatusRef = caller.callStatusRef]_vars

\* C29: the answer the caller applies to its peer was produced for the
\* offer of its current attempt, never the answer an earlier attempt's
\* receiver produced.
C29_AnswerOfThisAttempt == caller.remoteDesc # STALE

\* C30: once an endpoint is terminal or its view is disposed it issues no
\* further initial, offer or answer write, and it no longer reacts to
\* notifications: a disposed caller keeps its call state and signals no
\* answer, and a receiver creates no peer (its offer subscription does not
\* outlive the attempt).
CallerDone == caller.callStatusRef \in Terminal \/ ~caller.mounted
CalleeDone == callee.statusRef = "ended" \/ callee.view = "unmounted"

C30_QuietAfterTerminal ==
    [][/\ CallerDone =>
            /\ caller'.init = "writing" => caller.init = "writing"
            /\ caller'.offerEmitted => caller.offerEmitted
            /\ caller'.nSignal = caller.nSignal
       /\ CalleeDone =>
            /\ callee'.answerEmitted => callee.answerEmitted
            /\ callee'.nPeer = callee.nPeer]_vars

\* C31: every stream, peer and timer an attempt acquired is released once
\* the attempt is over: an endpoint that is ended, whose view is disposed
\* and that has no continuation, timer or event left to run holds no live
\* resource, also when the resource was created after the teardown.
CallerSettled ==
    /\ caller.callStatusRef = "ended" /\ ~caller.mounted
    /\ caller.init \in {"ready", "failed"} /\ caller.wq = <<>>
    /\ ~caller.closeTimer /\ caller.peerRef # "closing"
    /\ caller.timerTask \notin {"log", "status"} /\ caller.missedCallTimerRef # "armed"
    /\ caller.sharePending = 0

CalleeSettled ==
    /\ callee.statusRef = "ended" /\ callee.view = "unmounted"
    /\ callee.start \in {"listening", "done"} /\ callee.wq = <<>>
    /\ ~callee.closeTimer /\ callee.peerRef # "closing"
    /\ callee.sharePending = 0

C31_ResourcesReleased ==
    /\ CallerSettled => CallerReleased(caller)
    /\ CalleeSettled => CalleeReleased(callee)

\* C32: once an endpoint is terminal and every write, notification, timer
\* and event has run (nothing but a button press can still happen), the
\* record's status is ended or missed, the caller is terminal and a
\* receiver that accepted is ended.
SystemNext ==
    \/ RecordAges
    \/ CallerMediaOk
    \/ CallerMediaFail
    \/ CallerCommit
    \/ CallerPeerSignal
    \/ CallerPeerStream
    \/ CallerPeerClosed
    \/ CallerPeerCloseEvent
    \/ CallerTimerFire
    \/ CallerOnSnapshot
    \/ CallerOnClose
    \/ AppOnSnapshot
    \/ AppResubscribe
    \/ ReceiverMedia
    \/ ReceiverOnOffer
    \/ ReceiverPeerSignal
    \/ ReceiverPeerClosed
    \/ ReceiverPeerCloseEvent
    \/ ReceiverOnSnapshot
    \/ CalleeCommit
    \/ ReceiverOnClose

AllDelivered == ~ENABLED SystemNext

SomeEndpointTerminal ==
    \/ caller.callStatusRef \in Terminal
    \/ callee.view # "none" /\ callee.statusRef = "ended"

C32_TerminalPropagates ==
    (AllDelivered /\ SomeEndpointTerminal) =>
        /\ call.status \in Terminal
        /\ caller.callStatusRef \in Terminal
        /\ callee.view # "none" => callee.statusRef = "ended"

\* C33: for one attempt each endpoint schedules the view-close
\* notification (setTimeout(onClose)) at most once, whichever terminal
\* path fires, and an endpoint that is terminal with nothing left to run
\* has scheduled it.
C33_CloseScheduledOnce ==
    /\ caller.nClose <= 1 /\ callee.nClose <= 1
    /\ (AllDelivered /\ caller.callStatusRef \in Terminal) => caller.nClose = 1
    /\ (AllDelivered /\ callee.view # "none" /\ callee.statusRef = "ended") => callee.nClose = 1

\* C34: for one incoming call at most one of acceptCall and declineCall
\* takes effect: a call whose decline was issued is never also accepted
\* (no receiver view is rendered for it) and never answered.
Declined == callee.nMissed > 0
Accepted == callee.view # "none"

C34_AcceptDeclineExclusive ==
    Declined => (~Accepted /\ ~callee.answerEmitted)

\* Scenario: as Spec, and the Audio objects the listener creates are
\* followed one by one.  The listener assigns a new Audio to
\* incomingRingRef; the one it replaces keeps playing if it was, and no
\* handler can reach it any more.
AppRingTracked(a, s) ==
    IF RingGuard(a, s)
    THEN [AppRing(a, s) EXCEPT !.orphanRing = @ \/ a.ringing]
    ELSE a

AppOnSnapshotTracked ==
    /\ callee' = AppDismiss(AppRingTracked(callee, View(callee)), callee, View(callee))
    /\ callee' # callee
    /\ UNCHANGED <<call, fresh, messages, caller>>

NextRing ==
    \/ RecordAges
    \/ CallerMediaOk
    \/ CallerMediaFail
    \/ CallerCommit
    \/ CallerPeerSignal
    \/ CallerPeerStream
    \/ CallerPeerClosed
    \/ CallerPeerCloseEvent
    \/ CallerHangup
    \/ CallerTimerFire
    \/ CallerOnSnapshot
    \/ CallerOnClose
    \/ AppOnSnapshotTracked
    \/ AppResubscribe
    \/ AcceptCall
    \/ DeclineCall
    \/ ReceiverMedia
    \/ ReceiverOnOffer
    \/ ReceiverPeerSignal
    \/ ReceiverPeerClosed
    \/ ReceiverPeerCloseEvent
    \/ ReceiverHangup
    \/ ReceiverOnSnapshot
    \/ CalleeCommit
    \/ ReceiverOnClose

SpecRing == Init /\ [][NextRing]_vars

\* C35: whenever no incoming-call prompt is displayed, no ring audio
\* started by the listener is playing.
RingPlaying == callee.ringing \/ callee.orphanRing

C35_RingOnlyWithPrompt == callee.incomingCall = NoIncoming => ~RingPlaying

\* ------------------------------------------------------ transport errors
\* peer.on('error'): the handler logs the error.
CallerOnPeerErrorEnds(c) == CallerEndCall([c EXCEPT !.nError = Sat(@)])

CallerOnPeerError(c) == [c EXCEPT !.nError = Sat(@)]

CalleeOnPeerError(r) == [r EXCEPT !.nError = Sat(@)]

\* The peer emits 'error', either alone or as it closes (the 'close' event
\* then follows).
CallerPeerError ==
    /\ caller.peerRef = "live"
    /\ \E closes \in BOOLEAN :
         caller' = CallerOnPeerError([caller EXCEPT !.peerRef = IF closes THEN "closing" ELSE @])
    /\ caller' # caller
    /\ UNCHANGED <<call, fresh, messages, callee>>

ReceiverPeerError ==
    /\ callee.peerRef = "live"
    /\ \E closes \in BOOLEAN :
         callee' = CalleeOnPeerError([callee EXCEPT !.peerRef = IF closes THEN "closing" ELSE @])
    /\ callee' # callee
    /\ UNCHANGED <<call, fresh, messages, caller>>

\* Scenario: a call is placed and answered, nobody presses a button, and
\* the peers emit errors.
NextError ==
    \/ CallerMediaOk
    \/ CallerCommit
    \/ CallerPeerSignal
    \/ CallerPeerStream
    \/ CallerPeerClosed
    \/ CallerPeerCloseEvent
    \/ CallerPeerError
    \/ CallerTimerFire
    \/ CallerOnSnapshot
    \/ CallerOnClose
    \/ AppOnSnapshot
    \/ AppResubscribe
    \/ AcceptCall
    \/ ReceiverMedia
    \/ ReceiverOnOffer
    \/ ReceiverPeerSignal
    \/ ReceiverPeerClosed
    \/ ReceiverPeerCloseEvent
    \/ ReceiverPeerError
    \/ ReceiverOnSnapshot
    \/ CalleeCommit
    \/ ReceiverOnClose

SpecError == Init /\ [][NextError]_vars

\* C36: a peer 'error' event changes no call state, issues no write and
\* triggers no teardown on either endpoint: the step of the error handler
\* leaves everything but the error log (and the peer's own closing) as it
\* was.
C36_ErrorChangesNothing ==
    [][/\ caller'.nError # caller.nError =>
            /\ caller' = [caller EXCEPT !.nError = caller'.nError, !.peerRef = caller'.peerRef]
            /\ caller'.peerRef \in {"live", "closing"}
            /\ UNCHANGED <<call, fresh, messages, callee>>
       /\ callee'.nError # callee.nError =>
            /\ callee' = [callee EXCEPT !.nError = callee'.nError, !.peerRef = callee'.peerRef]
            /\ callee'.peerRef \in {"live", "closing"}
            /\ UNCHANGED <<call, fresh, messages, caller>>]_vars

C36_Witness ==
    /\ caller.nError > 0 /\ callee.nError > 0
    /\ caller.peerRef = "live" /\ callee.peerRef = "live"
    /\ caller.callStatusRef = "active" /\ callee.statusRef = "active"
    /\ call.status = "active" /\ caller.wq = <<>> /\ callee.wq = <<>>

\* ------------------------------------------- screen capture ends by itself
\* The captured screen track ends (the user stops sharing in the browser):
\* the stream held by screenStreamRef has no live track any more.
TrackEnded(ep) ==
    [ep EXCEPT !.screenStreamRef = "stopped", !.screensLive = @ - 1, !.nScreenEnd = Sat(@)]

\* VideoCall: screenTrack.onended = () => toggleScreenShare(), the function
\* of the render that started the share, in which isScreenSharing is false:
\* it takes the else branch.
CallerOnScreenEnded(c) == ShareStart(TrackEnded(c))

\* VideoCallReceiver: screenTrack.onended = () => { setIsScreenSharing(false); }
CalleeOnScreenEnded(r) == [TrackEnded(r) EXCEPT !.isScreenSharing = FALSE]

CallerScreenEnded ==
    /\ caller.screenStreamRef = "live"
    /\ caller' = CallerOnScreenEnded(caller)
    /\ UNCHANGED <<call, fresh, messages, callee>>

ReceiverScreenEnded ==
    /\ callee.screenStreamRef = "live"
    /\ callee' = CalleeOnScreenEnded(callee)
    /\ UNCHANGED <<call, fresh, messages, caller>>

\* Scenario: as SpecShare, and a running screen capture can end by itself.
NextScreenEnd ==
    \/ CallerMediaOk
    \/ CallerCommit
    \/ CallerPeerSignal
    \/ CallerPeerStream
    \/ CallerPeerClosed
    \/ CallerPeerCloseEvent
    \/ CallerHangup
    \/ CallerOnSnapshot
    \/ CallerOnClose
    \/ AppOnSnapshot
    \/ AppResubscribe
    \/ AcceptCall
    \/ ReceiverMedia
    \/ ReceiverOnOffer
    \/ ReceiverPeerSignal
    \/ ReceiverPeerClosed
    \/ ReceiverPeerCloseEvent
    \/ ReceiverHangup
    \/ ReceiverOnSnapshot
    \/ CalleeCommit
    \/ ReceiverOnClose
    \/ CallerShareStart
    \/ CallerShareResolve
    \/ CallerShareStop
    \/ CallerScreenEnded
    \/ ReceiverShareStart
    \/ ReceiverShareResolve
    \/ ReceiverShareStop
    \/ ReceiverScreenEnded

SpecScreenEnd == Init /\ [][NextScreenEnd]_vars

\* C37: when a running screen capture ends by itself, the step of the
\* track's ended handler leaves the outgoing video track on the camera and
\* the screen-sharing flag false, as toggling screen share off does.
ScreenEndRestores(ep, ep2) ==
    ep2.nScreenEnd # ep.nScreenEnd =>
        /\ ~ep2.isScreenSharing
        /\ VideoSender(ep) = "screen" => VideoSender(ep2) = "camera"

C37_ScreenEndRestores ==
    [][ScreenEndRestores(caller, caller') /\ ScreenEndRestores(callee, callee')]_vars

\* ------------------------------------------------ mute and camera buttons
\* toggleMute: every audio track of the local stream, if there is one, gets
\* enabled = isMuted; then the flag is negated.
ToggleMute(ep) ==
    [ep EXCEPT !.audioEnabled = IF ep.localStreamRef # "null" THEN ep.isMuted ELSE @,
               !.isMuted      = ~@]

\* toggleCamera: every video track of the local stream, if there is one, gets
\* enabled = isCamOff; then the flag is negated.
ToggleCamera(ep, hasVideo) ==
    [ep EXCEPT !.videoEnabled = IF hasVideo THEN ep.isCamOff ELSE @,
               !.isCamOff     = ~@]

\* The control bar is rendered for as long as the component is mounted.
CallerToggleMute ==
    /\ caller.mounted
    /\ caller' = ToggleMute(caller)
    /\ UNCHANGED <<call, fresh, messages, callee>>

CallerToggleCamera ==
    /\ caller.mounted
    /\ caller' = ToggleCamera(caller, CallerHasCamera)
    /\ UNCHANGED <<call, fresh, messages, callee>>

ReceiverToggleMute ==
    /\ callee.view = "mounted"
    /\ callee' = ToggleMute(callee)
    /\ UNCHANGED <<call, fresh, messages, caller>>

ReceiverToggleCamera ==
    /\ callee.view = "mounted"
    /\ callee' = ToggleCamera(callee, CalleeHasCamera)
    /\ UNCHANGED <<call, fresh, messages, caller>>

\* A call that is set up, answered or timed out, and torn down while the
\* users press the mute and camera buttons.
NextToggle ==
    \/ CallerMediaOk
    \/ CallerCommit
    \/ CallerPeerSignal
    \/ CallerPeerStream
    \/ CallerPeerCloseEvent
    \/ CallerTimerFire
    \/ CallerOnSnapshot
    \/ CallerOnClose
    \/ CallerToggleMute
    \/ CallerToggleCamera
    \/ AppOnSnapshot
    \/ AppResubscribe
    \/ AcceptCall
    \/ ReceiverMedia
    \/ ReceiverOnOffer
    \/ ReceiverPeerSignal
    \/ ReceiverPeerClosed
    \/ ReceiverPeerCloseEvent
    \/ ReceiverOnSnapshot
    \/ CalleeCommit
    \/ ReceiverOnClose
    \/ ReceiverToggleMute
    \/ ReceiverToggleCamera

SpecToggle == Init /\ [][NextToggle]_vars

\* A toggle leaves every field but its flag and its track's enabled bit alone.
MuteOnlyFlips(ep) ==
    [ToggleMute(ep) EXCEPT !.isMuted = ep.isMuted, !.audioEnabled = ep.audioEnabled] = ep

CameraOnlyFlips(ep, hasVideo) ==
    [ToggleCamera(ep, hasVideo) EXCEPT !.isCamOff = ep.isCamOff,
                                       !.videoEnabled = ep.videoEnabled] = ep

\* Pressing the same button twice brings the endpoint back to where it was.
ToggleTwiceRestores(ep, hasVideo) ==
    /\ ToggleMute(ToggleMute(ep)) = ep
    /\ ToggleCamera(ToggleCamera(ep, hasVideo), hasVideo) = ep

\* C38: toggleMute and toggleCamera only flip the enabled flag of the local
\* audio or video tracks: pressing either button twice restores the original
\* enabled state, and neither changes the call state, the record, the peer or
\* the timers.
C38_ToggleOnlyFlips ==
    /\ caller.mounted =>
         /\ MuteOnlyFlips(caller) /\ CameraOnlyFlips(caller, CallerHasCamera)
         /\ ToggleTwiceRestores(caller, CallerHasCamera)
    /\ callee.view = "mounted" =>
         /\ MuteOnlyFlips(callee) /\ CameraOnlyFlips(callee, CalleeHasCamera)
         /\ ToggleTwiceRestores(callee, CalleeHasCamera)

====
